---- MODULE Spec2Model ----
(***************************************************************************)
(* Model of ddbimport: the local import pipeline (importLocal: a producer  *)
(* reading batches of 25 rows from the CSV converter, a buffered channel,  *)
(* a pool of writer goroutines and a WaitGroup barrier) and the remote     *)
(* import (importRemote: state machine discovery, submission and polling). *)
(***************************************************************************)
EXTENDS Integers, Sequences, FiniteSets, Bags, TLC

\* ---------------------------------------------------------------- bounds
MaxRows == 76          \* data rows of the input: up to four batches
MaxWorkers == 2        \* value of the concurrency flag
MaxCapacity == 2       \* capacity of the batches channel (make(chan, 128))
MaxMachines == 3       \* deployed state machines in the listing
MaxPolls == 3          \* DescribeExecution calls followed
MaxBatchRows == 2      \* rows left in the input when ReadBatch is called
LongRows == 2451       \* data rows of the long input: 99 batches

\* ------------------------------------------------------ program constants
batchSize == 25        \* convert.go: batchSize := 25
progressEvery == 100   \* part_000: batchCount%100 == 0

NoBatch == [id |-> 0, items |-> <<>>]
Statuses == {"RUNNING", "SUCCEEDED", "FAILED", "TIMED_OUT", "ABORTED"}
MachineNames == {"ddbimport", "other"}
\* terminal outputs of an execution: text that is not a JSON array of
\* responses, or the processedCount fields of such an array
NoOutput == [json |-> FALSE, counts |-> <<>>, set |-> FALSE]
OutputPayloads ==
  {[json |-> FALSE, counts |-> <<>>, set |-> TRUE]} \cup
  {[json |-> TRUE, counts |-> c, set |-> TRUE] : c \in {<<>>, <<1>>, <<1, 2>>}}

VARIABLES
  mode,          \* "local" or "remote": main's dispatch on the remote flag
  pc,            \* position of the main goroutine
  fatalMsg,      \* message of logger.Fatal, "" while none
  \* --- local import
  nRows,         \* input: number of data rows after the header
  badRow,        \* input: index of the first row with a wrong field count, 0 if none
  concurrency,   \* the concurrency argument (number of workers)
  capacity,      \* cap(batches)
  pos,           \* rows the csv reader has consumed
  batch,         \* the producer's batch variable
  err,           \* the producer's err variable
  read,          \* batches ReadBatch has handed to the producer
  batches,       \* the channel's buffer
  enqueued,      \* every batch sent on the channel so far, in order
  closed,        \* close(batches) was called
  workerPc,      \* position of each worker goroutine
  workerBatch,   \* each worker's batch variable
  wg,            \* the WaitGroup counter
  recordCount,   \* shared counter of records written
  batchCount,    \* shared counter of batches written
  progress,      \* number of "progress" lines logged
  written,       \* bag of batches whose sink Write returned nil
  rejected,      \* bag of batches whose sink Write returned an error
  reported,      \* records in the "complete" line, -1 before it
  durationWriters, \* goroutines that have assigned duration: 0 is importLocal's own
  \* --- remote import
  stateMachines, \* input: names of the deployed state machines, in listing order
  pageLen,       \* input: machines per page of the listing
  listed,        \* machines the paging callback has seen
  arn,           \* index of the selected state machine, 0 for nil
  executions,    \* StartExecution calls made: the state machine of each
  statuses,      \* statuses returned by DescribeExecution, in order
  sleeps,        \* time.Sleep calls made
  outputPayload, \* the outputPayload variable
  lines,         \* lines in the "complete" line, -1 before it
  \* --- main
  flags,         \* the command line: the value of each flag, and whether
                 \* os.Args[1] is "install"
  mainPc,        \* position of main
  usageMsg,      \* diagnostic printed under the usage text, "" while none
  exitCode,      \* status of os.Exit or of main's return, -1 while running
  call,          \* the import function main has called, with its arguments
  sourceOpened,  \* importLocal has called input()
  \* --- converter
  conf,          \* the Configuration: Columns, KeyColumns, KeyToConverter
  columnNames,   \* Converter.columnNames
  fieldsPerRecord, \* csv.Reader.FieldsPerRecord
  csvEOF,        \* the csv reader has returned io.EOF
  convPc,        \* "new" before NewConverter, then "ready" or "failed"
  result         \* the input and the return values of the last call

localVars == <<nRows, badRow, concurrency, capacity, pos, batch, err, read,
               batches, enqueued, closed, workerPc, workerBatch, wg, recordCount,
               batchCount, progress, written, rejected, reported,
               durationWriters>>
remoteVars == <<stateMachines, pageLen, listed, arn, executions, statuses,
                sleeps, outputPayload, lines>>
mainVars == <<flags, mainPc, usageMsg, exitCode, call, sourceOpened>>
convVars == <<conf, columnNames, fieldsPerRecord, csvEOF, convPc, result>>
vars == <<mode, pc, fatalMsg, localVars, remoteVars, mainVars, convVars>>

Workers == 1..concurrency

\* ------------------------------------------------------------- converter
\* csv.Reader.Read as Converter.Read sees it: io.EOF at the end of the
\* input, ErrFieldCount on a row with the wrong number of fields (the row
\* is consumed), else the row.
Read(p) ==
  IF p >= nRows THEN [item |-> 0, err |-> "EOF", pos |-> p]
  ELSE IF p + 1 = badRow THEN [item |-> 0, err |-> "ErrFieldCount", pos |-> p + 1]
  ELSE [item |-> p + 1, err |-> "nil", pos |-> p + 1]

RECURSIVE ReadBatchLoop(_, _)
\* convert.go 106-112: the loop of ReadBatch from reader position p with
\* the items read so far, up to the return
ReadBatchLoop(p, items) ==
  IF Len(items) >= batchSize
    THEN [items |-> items, read |-> Len(items), err |-> "nil", pos |-> p]
    ELSE CHOOSE out \in
           {IF r.err # "nil"
              THEN [items |-> items, read |-> Len(items), err |-> r.err, pos |-> r.pos]
              ELSE ReadBatchLoop(r.pos, Append(items, r.item)) : r \in {Read(p)}} : TRUE

\* a ReadBatch that returns items instead of items[:read]
ReadBatchUnsliced(p) ==
  LET r == ReadBatchLoop(p, <<>>) IN
  [r EXCEPT !.items = r.items \o [i \in 1..(batchSize - r.read) |-> 0]]

\* convert.go 103-113: ReadBatch with the csv reader at position p
ReadBatch(p) == ReadBatchLoop(p, <<>>)

\* ------------------------------------------------------------------ Init
InitLocal ==
  /\ nRows \in 0..MaxRows
  /\ badRow \in 0..nRows
  /\ concurrency \in 1..MaxWorkers
  /\ capacity \in 1..MaxCapacity
  /\ pos = 0
  /\ batch = NoBatch
  /\ err = "nil"
  /\ read = 0
  /\ batches = <<>>
  /\ enqueued = <<>>
  /\ closed = FALSE
  /\ workerPc = [w \in 1..concurrency |-> "recv"]
  /\ workerBatch = [w \in 1..concurrency |-> NoBatch]
  /\ wg = concurrency
  /\ recordCount = 0
  /\ batchCount = 1
  /\ progress = 0
  /\ written = EmptyBag
  /\ rejected = EmptyBag
  /\ reported = -1
  /\ durationWriters = {}

IdleLocal ==
  /\ nRows = 0 /\ badRow = 0 /\ concurrency = 1 /\ capacity = 1
  /\ pos = 0 /\ batch = NoBatch /\ err = "nil" /\ read = 0
  /\ batches = <<>> /\ enqueued = <<>> /\ closed = FALSE
  /\ workerPc = [w \in 1..1 |-> "unstarted"]
  /\ workerBatch = [w \in 1..1 |-> NoBatch]
  /\ wg = 0 /\ recordCount = 0 /\ batchCount = 1 /\ progress = 0
  /\ written = EmptyBag /\ rejected = EmptyBag /\ reported = -1
  /\ durationWriters = {}

Listings == UNION {[1..n -> MachineNames] : n \in 0..MaxMachines}

InitRemote ==
  /\ stateMachines \in Listings
  /\ pageLen \in 1..MaxMachines
  /\ listed = 0
  /\ arn = 0
  /\ executions = <<>>
  /\ statuses = <<>>
  /\ sleeps = 0
  /\ outputPayload = NoOutput
  /\ lines = -1

IdleRemote ==
  /\ stateMachines = <<>> /\ pageLen = 1 /\ listed = 0 /\ arn = 0
  /\ executions = <<>> /\ statuses = <<>> /\ sleeps = 0
  /\ outputPayload = NoOutput /\ lines = -1

\* characters and strings (a string is the sequence of its characters)
Comma == ","
Tab == "\t"
NoCall == [fn |-> "none", region |-> "", inputName |-> "", delimiter |-> ""]
NoFlags == [install |-> FALSE, tableRegion |-> "", tableName |-> "",
            bucketRegion |-> "", bucketName |-> "", bucketKey |-> "",
            inputFile |-> "", stepFnRegion |-> "", remote |-> FALSE,
            delimiter |-> <<"c", "o", "m", "m", "a">>]

IdleMain ==
  /\ flags = NoFlags /\ mainPc = "idle" /\ usageMsg = "" /\ exitCode = -1
  /\ call = NoCall /\ sourceOpened = FALSE

\* an item: nil, or the map from column name to attribute value
NilItem == [nil |-> TRUE, attrs |-> <<>>]
NoResult == [op |-> "none", input |-> <<>>, item |-> NilItem, items |-> <<>>,
             read |-> 0, err |-> "nil", panic |-> FALSE]
NoConf == [Columns |-> <<>>, KeyColumns |-> {}, KeyToConverter |-> <<>>]

IdleConv ==
  /\ conf = NoConf /\ columnNames = <<>> /\ fieldsPerRecord = 0
  /\ csvEOF = FALSE /\ convPc = "idle" /\ result = NoResult

Init ==
  /\ fatalMsg = ""
  /\ IdleMain
  /\ IdleConv
  /\ \/ mode = "local" /\ pc = "read" /\ InitLocal /\ IdleRemote
     \/ mode = "remote" /\ pc = "session" /\ IdleLocal /\ InitRemote

\* ---------------------------------------------------------- local import
\* os.Exit in logger.Fatal ends every goroutine of the process.
Running == mode = "local" /\ pc # "fatal"

\* the read error is not examined
ReadErrIgnored(e) == FALSE

\* line 309: err != nil && err != io.EOF
ReadErrIsFatal(e) == e # "nil" /\ e # "EOF"

\* line 308-313: batch, _, err := reader.ReadBatch(), fatal on a read error
ProducerReadBatch ==
  /\ Running /\ pc = "read"
  /\ LET r == ReadBatch(pos) IN
     /\ pos' = r.pos
     /\ err' = r.err
     /\ read' = read + 1
     /\ batch' = [id |-> read + 1, items |-> r.items]
     /\ IF ReadErrIsFatal(r.err)
          THEN pc' = "fatal" /\ fatalMsg' = "failed to read batch from input"
          ELSE pc' = "send" /\ fatalMsg' = fatalMsg
  /\ UNCHANGED <<mainVars, convVars, mode, nRows, badRow, concurrency, capacity, batches, enqueued, closed,
                 workerPc, workerBatch, wg, recordCount, batchCount, progress,
                 written, rejected, reported, durationWriters, remoteVars>>

\* a send that also proceeds on a full buffer
CanSendOverfull(q, c) == Len(q) <= c

\* a send on a buffered channel proceeds only while the buffer has room
CanSend(q, c) == Len(q) < c

\* line 314-317: batches <- batch, then leave the loop on io.EOF
ProducerSend ==
  /\ Running /\ pc = "send"
  /\ CanSend(batches, capacity)
  /\ batches' = Append(batches, batch)
  /\ enqueued' = Append(enqueued, batch)
  /\ pc' = IF err = "EOF" THEN "close" ELSE "read"
  /\ UNCHANGED <<mainVars, convVars, mode, fatalMsg, nRows, badRow, concurrency, capacity, pos,
                 batch, err, read, closed, workerPc, workerBatch, wg,
                 recordCount, batchCount, progress, written, rejected,
                 reported, durationWriters, remoteVars>>

\* line 319: close(batches)
ProducerClose ==
  /\ Running /\ pc = "close"
  /\ closed' = TRUE
  /\ pc' = "wait"
  /\ UNCHANGED <<mainVars, convVars, mode, enqueued, fatalMsg, nRows, badRow, concurrency, capacity, pos,
                 batch, err, read, batches, workerPc, workerBatch, wg,
                 recordCount, batchCount, progress, written, rejected,
                 reported, durationWriters, remoteVars>>

\* a Wait that does not wait for the workers
ProducerWaitNoBarrier ==
  /\ Running /\ pc = "wait"
  /\ pc' = "log"
  /\ UNCHANGED <<mainVars, convVars, mode, fatalMsg, localVars, remoteVars>>

\* line 322: wg.Wait() returns once the counter is zero
ProducerWait ==
  /\ Running /\ pc = "wait"
  /\ wg = 0
  /\ pc' = "log"
  /\ UNCHANGED <<mainVars, convVars, mode, fatalMsg, localVars, remoteVars>>

\* line 323-327: duration = time.Since(start) and the "complete" line with
\* the records counter
ProducerLogComplete ==
  /\ Running /\ pc = "log"
  /\ durationWriters' = durationWriters \cup {0}
  /\ reported' = recordCount
  /\ pc' = "complete"
  /\ UNCHANGED <<mainVars, convVars, mode, fatalMsg, nRows, badRow, concurrency, capacity, pos,
                 batch, err, read, batches, enqueued, closed, workerPc, workerBatch, wg,
                 recordCount, batchCount, progress, written, rejected,
                 remoteVars>>

\* line 291: range takes the next buffered batch
WorkerRecv(w) ==
  /\ Running /\ w \in Workers /\ workerPc[w] = "recv"
  /\ Len(batches) > 0
  /\ workerBatch' = [workerBatch EXCEPT ![w] = Head(batches)]
  /\ batches' = Tail(batches)
  /\ workerPc' = [workerPc EXCEPT ![w] = "write"]
  /\ UNCHANGED <<mainVars, convVars, mode, pc, fatalMsg, nRows, badRow, concurrency, capacity,
                 pos, batch, err, read, enqueued, closed, wg, recordCount, batchCount,
                 progress, written, rejected, reported, durationWriters, remoteVars>>

\* a loop that ends on close without looking at the buffer
RangeEndsOnClose(q, c) == c

\* range ends when the channel is closed and its buffer is empty
RangeEnds(q, c) == c /\ Len(q) = 0

\* a goroutine that returns without wg.Done()
WgDoneMissing(n) == n

\* line 290: the deferred wg.Done()
WgDone(n) == n - 1

\* line 291, 302, 290: the loop ends and the goroutine returns
WorkerExit(w) ==
  /\ Running /\ w \in Workers /\ workerPc[w] = "recv"
  /\ RangeEnds(batches, closed)
  /\ workerPc' = [workerPc EXCEPT ![w] = "done"]
  /\ wg' = WgDone(wg)
  /\ UNCHANGED <<mainVars, convVars, mode, pc, fatalMsg, nRows, badRow, concurrency, capacity,
                 pos, batch, err, read, batches, enqueued, closed, workerBatch,
                 recordCount, batchCount, progress, written, rejected,
                 reported, durationWriters, remoteVars>>

\* line 292: batchWriter.Write(batch) returns nil
WorkerWriteOk(w) ==
  /\ Running /\ w \in Workers /\ workerPc[w] = "write"
  /\ written' = written (+) SetToBag({workerBatch[w]})
  /\ workerPc' = [workerPc EXCEPT ![w] = "addRecords"]
  /\ UNCHANGED <<mainVars, convVars, mode, pc, fatalMsg, nRows, badRow, concurrency, capacity,
                 pos, batch, err, read, batches, enqueued, closed, workerBatch, wg,
                 recordCount, batchCount, progress, rejected, reported, durationWriters,
                 remoteVars>>

\* a worker that writes the batch again after a failed Write
WorkerWriteFailRetry(w) ==
  /\ Running /\ w \in Workers /\ workerPc[w] = "write"
  /\ rejected' = rejected (+) SetToBag({workerBatch[w]})
  /\ UNCHANGED <<mainVars, convVars, mode, pc, fatalMsg, nRows, badRow, concurrency, capacity,
                 pos, batch, err, read, batches, enqueued, closed, workerPc,
                 workerBatch, wg, recordCount, batchCount, progress, written,
                 reported, durationWriters, remoteVars>>

\* line 292-296, 290: batchWriter.Write(batch) returns an error; the worker
\* logs it and returns
WorkerWriteFail(w) ==
  /\ Running /\ w \in Workers /\ workerPc[w] = "write"
  /\ rejected' = rejected (+) SetToBag({workerBatch[w]})
  /\ workerPc' = [workerPc EXCEPT ![w] = "done"]
  /\ workerBatch' = [workerBatch EXCEPT ![w] = NoBatch]
  /\ wg' = WgDone(wg)
  /\ UNCHANGED <<mainVars, convVars, mode, pc, fatalMsg, nRows, badRow, concurrency, capacity,
                 pos, batch, err, read, batches, enqueued, closed, recordCount,
                 batchCount, progress, written, reported, durationWriters, remoteVars>>

\* a counter that counts batches instead of records
RecordDeltaOne(b) == 1

\* line 297: the delta int64(len(batch))
RecordDelta(b) == Len(b.items)

\* atomic.AddInt64: one indivisible read-modify-write
AtomicAddInt64(v, delta) == v + delta

\* line 297: atomic.AddInt64(&recordCount, int64(len(batch)))
WorkerAddRecords(w) ==
  /\ Running /\ w \in Workers /\ workerPc[w] = "addRecords"
  /\ recordCount' = AtomicAddInt64(recordCount, RecordDelta(workerBatch[w]))
  /\ workerPc' = [workerPc EXCEPT ![w] = "addBatches"]
  /\ UNCHANGED <<mainVars, convVars, mode, pc, fatalMsg, nRows, badRow, concurrency, capacity,
                 pos, batch, err, read, batches, enqueued, closed, workerBatch, wg,
                 batchCount, progress, written, rejected, reported, durationWriters,
                 remoteVars>>

\* line 298-301: atomic.AddInt64(&batchCount, 1) and the progress line
WorkerAddBatches(w) ==
  /\ Running /\ w \in Workers /\ workerPc[w] = "addBatches"
  /\ batchCount' = AtomicAddInt64(batchCount, 1)
  /\ progress' = IF batchCount' % progressEvery = 0 THEN progress + 1 ELSE progress
  /\ durationWriters' = IF batchCount' % progressEvery = 0
                          THEN durationWriters \cup {w} ELSE durationWriters
  /\ workerBatch' = [workerBatch EXCEPT ![w] = NoBatch]
  /\ workerPc' = [workerPc EXCEPT ![w] = "recv"]
  /\ UNCHANGED <<mainVars, convVars, mode, pc, fatalMsg, nRows, badRow, concurrency, capacity,
                 pos, batch, err, read, batches, enqueued, closed, wg, recordCount,
                 written, rejected, reported, remoteVars>>

Producer ==
  \/ ProducerReadBatch
  \/ ProducerSend
  \/ ProducerClose
  \/ ProducerWait
  \/ ProducerLogComplete

Worker(w) ==
  \/ WorkerRecv(w)
  \/ WorkerExit(w)
  \/ WorkerWriteOk(w)
  \/ WorkerWriteFail(w)
  \/ WorkerAddRecords(w)
  \/ WorkerAddBatches(w)

\* --------------------------------------------------------- remote import
RemoteRunning == mode = "remote" /\ pc # "fatal"

Min(a, b) == IF a < b THEN a ELSE b

\* line 148-152: session.NewSession succeeds
NewSession ==
  /\ RemoteRunning /\ pc = "session"
  /\ pc' = "list"
  /\ UNCHANGED <<mainVars, convVars, mode, fatalMsg, localVars, remoteVars>>

\* line 148-151: session.NewSession fails
NewSessionFails ==
  /\ RemoteRunning /\ pc = "session"
  /\ pc' = "fatal"
  /\ fatalMsg' = "failed to create AWS session"
  /\ UNCHANGED <<mainVars, convVars, mode, localVars, remoteVars>>

\* a loop over the page that does not stop at the first match
LastMatch(lo, hi) ==
  LET hits == {i \in (lo + 1)..hi : stateMachines[i] = "ddbimport"} IN
  IF hits = {} THEN 0 ELSE CHOOSE i \in hits : \A j \in hits : i >= j

\* line 159-164: the first machine of the page lo+1..hi named "ddbimport",
\* 0 if the page has none
FirstMatch(lo, hi) ==
  LET hits == {i \in (lo + 1)..hi : stateMachines[i] = "ddbimport"} IN
  IF hits = {} THEN 0 ELSE CHOOSE i \in hits : \A j \in hits : i <= j

\* line 156-166: ListStateMachinesPages hands one page to the callback,
\* which stops the paging (returns false) on the first match
ListPage ==
  /\ RemoteRunning /\ pc = "list"
  /\ LET hi == Min(listed + pageLen, Len(stateMachines))
         m == FirstMatch(listed, hi) IN
     /\ listed' = IF m # 0 THEN m ELSE hi
     /\ arn' = IF m # 0 THEN m ELSE arn
     /\ pc' = IF m # 0 \/ hi = Len(stateMachines) THEN "checkArn" ELSE "list"
  /\ UNCHANGED <<mainVars, convVars, mode, fatalMsg, localVars, stateMachines, pageLen,
                 executions, statuses, sleeps, outputPayload, lines>>

\* line 167-169: the listing returns an error
ListFails ==
  /\ RemoteRunning /\ pc = "list"
  /\ pc' = "fatal"
  /\ fatalMsg' = "failed to list state machines"
  /\ UNCHANGED <<mainVars, convVars, mode, localVars, remoteVars>>

\* line 170-174: fatal when no state machine was found
CheckArn ==
  /\ RemoteRunning /\ pc = "checkArn"
  /\ IF arn = 0
       THEN pc' = "fatal" /\ fatalMsg' = "ddbimport state machine not found"
       ELSE pc' = "start" /\ fatalMsg' = fatalMsg
  /\ UNCHANGED <<mainVars, convVars, mode, localVars, remoteVars>>

\* line 176-192: StartExecution succeeds (json.Marshal of state.Input, a
\* struct of strings, string slices and ints, does not fail)
StartExecution ==
  /\ RemoteRunning /\ pc = "start"
  /\ executions' = Append(executions, arn)
  /\ pc' = "describe"
  /\ UNCHANGED <<mainVars, convVars, mode, fatalMsg, localVars, stateMachines, pageLen, listed,
                 arn, statuses, sleeps, outputPayload, lines>>

\* line 182-189: StartExecution fails
StartExecutionFails ==
  /\ RemoteRunning /\ pc = "start"
  /\ pc' = "fatal"
  /\ fatalMsg' = "failed to start execution of state machine"
  /\ UNCHANGED <<mainVars, convVars, mode, localVars, remoteVars>>

\* a switch without the default case
StatusOutcomeNoDefault(s) ==
  IF s = "RUNNING" THEN "sleep" ELSE "unmarshal"

\* line 203-214: the switch on *deo.Status
StatusOutcome(s) ==
  IF s = "RUNNING" THEN "sleep"
  ELSE IF s = "SUCCEEDED" THEN "unmarshal"
  ELSE "fatal"

\* line 197-214: one DescribeExecution call and the switch on its status
DescribeExecution ==
  /\ RemoteRunning /\ pc = "describe"
  /\ Len(statuses) < MaxPolls
  /\ \E s \in Statuses, out \in OutputPayloads :
       /\ statuses' = Append(statuses, s)
       /\ pc' = StatusOutcome(s)
       /\ outputPayload' = IF pc' = "unmarshal" THEN out ELSE outputPayload
       /\ fatalMsg' = IF pc' = "fatal" THEN "unexpected execution status" ELSE fatalMsg
  /\ UNCHANGED <<mainVars, convVars, mode, localVars, stateMachines, pageLen, listed, arn,
                 executions, sleeps, lines>>

\* line 200-202: DescribeExecution fails
DescribeExecutionFails ==
  /\ RemoteRunning /\ pc = "describe"
  /\ Len(statuses) < MaxPolls
  /\ pc' = "fatal"
  /\ fatalMsg' = "failed to get execution status"
  /\ UNCHANGED <<mainVars, convVars, mode, localVars, remoteVars>>

\* line 206-207: time.Sleep(time.Second * 5); continue
Sleep ==
  /\ RemoteRunning /\ pc = "sleep"
  /\ sleeps' = sleeps + 1
  /\ pc' = "describe"
  /\ UNCHANGED <<mainVars, convVars, mode, fatalMsg, localVars, stateMachines, pageLen, listed,
                 arn, executions, statuses, outputPayload, lines>>

RECURSIVE SumCounts(_)
\* line 222-225: lines += op.ProcessedCount
SumCounts(c) == IF c = <<>> THEN 0 ELSE Head(c) + SumCounts(Tail(c))

\* line 217-226: json.Unmarshal of the output and the "complete" line
Unmarshal ==
  /\ RemoteRunning /\ pc = "unmarshal"
  /\ IF outputPayload.json
       THEN /\ lines' = SumCounts(outputPayload.counts)
            /\ pc' = "complete"
            /\ fatalMsg' = fatalMsg
       ELSE /\ lines' = lines
            /\ pc' = "fatal"
            /\ fatalMsg' = "failed to unmarshal output"
  /\ UNCHANGED <<mainVars, convVars, mode, localVars, stateMachines, pageLen, listed, arn,
                 executions, statuses, sleeps, outputPayload>>

Remote ==
  \/ NewSession
  \/ NewSessionFails
  \/ ListPage
  \/ ListFails
  \/ CheckArn
  \/ StartExecution
  \/ StartExecutionFails
  \/ DescribeExecution
  \/ DescribeExecutionFails
  \/ Sleep
  \/ Unmarshal

\* --------------------------------------------------------- specification
Next ==
  \/ Producer
  \/ \E w \in 1..MaxWorkers : Worker(w)
  \/ Remote

Spec == Init /\ [][Next]_vars

\* The local import over an input without a malformed row.
InitWellFormed == Init /\ mode = "local" /\ badRow = 0

NextLocal ==
  \/ Producer
  \/ \E w \in 1..MaxWorkers : Worker(w)

\* The Go scheduler runs every goroutine that can take a step.
FairSpec ==
  /\ InitWellFormed
  /\ [][NextLocal]_vars
  /\ WF_vars(Producer)
  /\ \A w \in 1..MaxWorkers : WF_vars(Worker(w))

\* ------------------------------------------- local import, a long input
\* The progress block of a worker runs when batchCount reaches a multiple of
\* 100; here the input is long enough for that to happen, one worker is
\* started, every Write succeeds, and the block is a step of its own.
InitLong ==
  /\ mode = "local" /\ pc = "read" /\ fatalMsg = ""
  /\ IdleMain /\ IdleConv /\ IdleRemote
  /\ nRows = LongRows /\ badRow = 0
  /\ concurrency = 1 /\ capacity = 1
  /\ pos = 0 /\ batch = NoBatch /\ err = "nil" /\ read = 0
  /\ batches = <<>> /\ enqueued = <<>> /\ closed = FALSE
  /\ workerPc = [w \in 1..concurrency |-> "recv"]
  /\ workerBatch = [w \in 1..concurrency |-> NoBatch]
  /\ wg = concurrency
  /\ recordCount = 0 /\ batchCount = 1 /\ progress = 0
  /\ written = EmptyBag /\ rejected = EmptyBag /\ reported = -1
  /\ durationWriters = {}

\* line 298: atomic.AddInt64(&batchCount, 1) and the test of what it returns
WorkerAddBatchCount(w) ==
  /\ Running /\ w \in Workers /\ workerPc[w] = "addBatches"
  /\ batchCount' = AtomicAddInt64(batchCount, 1)
  /\ IF batchCount' % progressEvery = 0
       THEN /\ workerPc' = [workerPc EXCEPT ![w] = "progress"]
            /\ UNCHANGED workerBatch
       ELSE /\ workerPc' = [workerPc EXCEPT ![w] = "recv"]
            /\ workerBatch' = [workerBatch EXCEPT ![w] = NoBatch]
  /\ UNCHANGED <<mainVars, convVars, mode, pc, fatalMsg, nRows, badRow, concurrency, capacity,
                 pos, batch, err, read, batches, enqueued, closed, wg, recordCount,
                 progress, written, rejected, reported, durationWriters, remoteVars>>

\* line 299-300: duration = time.Since(start), a plain assignment to the
\* variable of importLocal that the closure captures, and the progress line
WorkerLogProgress(w) ==
  /\ Running /\ w \in Workers /\ workerPc[w] = "progress"
  /\ durationWriters' = durationWriters \cup {w}
  /\ progress' = progress + 1
  /\ workerBatch' = [workerBatch EXCEPT ![w] = NoBatch]
  /\ workerPc' = [workerPc EXCEPT ![w] = "recv"]
  /\ UNCHANGED <<mainVars, convVars, mode, pc, fatalMsg, nRows, badRow, concurrency, capacity,
                 pos, batch, err, read, batches, enqueued, closed, wg, recordCount,
                 batchCount, written, rejected, reported, remoteVars>>

NextLong ==
  \/ ProducerReadBatch
  \/ ProducerSend
  \/ ProducerClose
  \/ ProducerWait
  \/ ProducerLogComplete
  \/ \E w \in 1..MaxWorkers :
       \/ WorkerRecv(w)
       \/ WorkerExit(w)
       \/ WorkerWriteOk(w)
       \/ WorkerAddRecords(w)
       \/ WorkerAddBatchCount(w)
       \/ WorkerLogProgress(w)

LongSpec == InitLong /\ [][NextLong]_vars

\* ------------------------------------------------------------------ main
\* values given to the delimiter flag
DelimiterInputs ==
  {<<"c", "o", "m", "m", "a">>, <<"t", "a", "b">>, <<Comma>>, <<Tab>>,
   <<>>, <<";">>, <<"T", "A", "B">>, <<"t", "a", "b", "s">>, <<Tab, Tab>>,
   <<Comma, Tab>>}

\* a delimiter that knows the two names only
delimiterNamedOnly(s) ==
  IF s = <<"t", "a", "b">> THEN Tab ELSE Comma

\* part_000 51-59: delimiter
delimiter(s) ==
  IF s = <<Comma>> \/ s = <<Tab>> THEN s[1]
  ELSE IF s = <<"t", "a", "b">> THEN Tab
  ELSE Comma

InitMain ==
  /\ mode = "main" /\ pc = "idle" /\ fatalMsg = ""
  /\ IdleLocal /\ IdleRemote /\ IdleConv
  /\ flags \in [install : BOOLEAN,
                tableRegion : {"", "eu-west-1"}, tableName : {"", "table"},
                bucketRegion : {"", "eu-west-2"}, bucketName : {"", "bucket"},
                bucketKey : {"", "key"}, inputFile : {"", "data.csv"},
                stepFnRegion : {"", "us-east-1"}, remote : BOOLEAN,
                delimiter : DelimiterInputs]
  /\ mainPc = "main" /\ usageMsg = "" /\ exitCode = -1
  /\ call = NoCall /\ sourceOpened = FALSE

\* line 86
localFile(f) == f.inputFile # ""
\* line 87
remoteFile(f) == f.bucketRegion # "" \/ f.bucketName # "" \/ f.bucketKey # ""

\* line 75-96: the diagnostic of the first failing check, "" when all pass
UsageError(f) ==
  IF f.tableRegion = "" \/ f.tableName = ""
    THEN "Must include a table region and table name flag."
  ELSE IF localFile(f) /\ remoteFile(f)
    THEN "Must pass inputFile OR bucketRegion, bucketName and bucketKey."
  ELSE IF remoteFile(f) /\ (f.bucketRegion = "" \/ f.bucketName = "" \/ f.bucketKey = "")
    THEN "Must pass values for all of the bucketRegion, bucketName and bucketKey arguments if a localFile argument is omitted."
  ELSE IF f.remote /\ ~remoteFile(f)
    THEN "Remote import requires the file to be located within an S3 bucket. Pass the bucketRegion, bucketName and bucketKey arguments."
  ELSE ""

\* line 75-80: ddbimport install
MainInstall ==
  /\ mode = "main" /\ mainPc = "main"
  /\ flags.install
  /\ mainPc' = "install"
  /\ exitCode' = 0
  /\ UNCHANGED <<convVars, mode, pc, fatalMsg, localVars, remoteVars, flags, usageMsg,
                 call, sourceOpened>>

\* line 81-97, 61-71: printUsageAndExit
MainUsage ==
  /\ mode = "main" /\ mainPc = "main"
  /\ ~flags.install
  /\ UsageError(flags) # ""
  /\ usageMsg' = UsageError(flags)
  /\ mainPc' = "usage"
  /\ exitCode' = 1
  /\ UNCHANGED <<convVars, mode, pc, fatalMsg, localVars, remoteVars, flags, call,
                 sourceOpened>>

\* line 94-121: the call of importRemote
MainImportRemote ==
  /\ mode = "main" /\ mainPc = "main"
  /\ ~flags.install
  /\ UsageError(flags) = ""
  /\ flags.remote
  /\ call' = [fn |-> "importRemote",
              region |-> IF flags.stepFnRegion # "" THEN flags.stepFnRegion
                         ELSE flags.tableRegion,
              inputName |-> "",
              delimiter |-> delimiter(flags.delimiter)]
  /\ mainPc' = "importRemote"
  /\ UNCHANGED <<convVars, mode, pc, fatalMsg, localVars, remoteVars, flags, usageMsg,
                 exitCode, sourceOpened>>

\* line 124-131: the call of importLocal
MainImportLocal ==
  /\ mode = "main" /\ mainPc = "main"
  /\ ~flags.install
  /\ UsageError(flags) = ""
  /\ ~flags.remote
  /\ call' = [fn |-> "importLocal",
              region |-> flags.tableRegion,
              inputName |-> IF remoteFile(flags) THEN "s3" ELSE flags.inputFile,
              delimiter |-> delimiter(flags.delimiter)]
  /\ mainPc' = "importLocal"
  /\ UNCHANGED <<convVars, mode, pc, fatalMsg, localVars, remoteVars, flags, usageMsg,
                 exitCode, sourceOpened>>

\* line 260, 126-129: input() opens the file or gets the S3 object
OpenInput ==
  /\ mode = "main" /\ mainPc = "importLocal"
  /\ call.inputName # ""
  /\ sourceOpened' = TRUE
  /\ mainPc' = "opened"
  /\ UNCHANGED <<convVars, mode, pc, fatalMsg, localVars, remoteVars, flags, usageMsg,
                 exitCode, call>>

\* line 260-263: input() fails, as os.Open("") always does
OpenInputFails ==
  /\ mode = "main" /\ mainPc = "importLocal"
  /\ sourceOpened' = TRUE
  /\ mainPc' = "fatal"
  /\ fatalMsg' = "failed to open input file"
  /\ exitCode' = 1
  /\ UNCHANGED <<convVars, mode, pc, localVars, remoteVars, flags, usageMsg, call>>

NextMain ==
  \/ MainInstall
  \/ MainUsage
  \/ MainImportRemote
  \/ MainImportLocal
  \/ OpenInput
  \/ OpenInputFails

MainSpec == InitMain /\ [][NextMain]_vars

\* ------------------------------------------------- converter, field by field
\* Texts are sequences of one-character strings; column names are texts.
Empty == <<>>
ColA == <<"a">>
ColB == <<"b">>
One == <<"1">>
Names == {ColA, ColB}
FieldTexts ==
  {Empty, One,
   <<"t", "r", "u", "e">>, <<"T", "R", "U", "E">>, <<"T", "r", "u", "e">>,
   <<"f", "a", "l", "s", "e">>, <<"F", "A", "L", "S", "E">>,
   <<"y", "e", "s">>}
\* column lists, as a header row or as conf.Columns; the last repeats a name
ColumnLists == {<<ColA>>, <<ColA, ColB>>, <<ColA, ColA>>}
\* records of one field and of two; the second field is empty, a number or
\* a boolean in mixed case
SecondTexts == {Empty, One, <<"T", "r", "u", "e">>}
Records == {<<t>> : t \in FieldTexts}
             \cup {<<t, u>> : t \in FieldTexts, u \in SecondTexts}
BatchRecords == {<<One>>, <<One, One>>, <<Empty, One>>}
BatchTails == UNION {[1..n -> BatchRecords] : n \in 0..MaxBatchRows}
ReadTails == {<<>>} \cup {<<r>> : r \in Records}
HeaderTails == {<<>>} \cup {<<h>> : h \in ColumnLists}
Converters == {"stringValue", "numberValue", "boolValue"}
Configurations ==
  {[Columns |-> c, KeyColumns |-> k, KeyToConverter |-> f] :
     c \in {<<>>} \cup ColumnLists,
     k \in {<<>>, <<ColA>>, <<ColB>>},
     f \in UNION {[D -> Converters] : D \in SUBSET Names}}

InitConv ==
  /\ mode = "conv" /\ pc = "idle" /\ fatalMsg = ""
  /\ IdleLocal /\ IdleRemote /\ IdleMain
  /\ conf \in Configurations
  /\ columnNames = <<>> /\ fieldsPerRecord = 0 /\ csvEOF = FALSE
  /\ convPc = "new" /\ result = NoResult

stringValue(s) == [tag |-> "S", text |-> s, bool |-> FALSE]
numberValue(s) == [tag |-> "N", text |-> s, bool |-> FALSE]
trueValue == [tag |-> "BOOL", text |-> Empty, bool |-> TRUE]
falseValue == [tag |-> "BOOL", text |-> Empty, bool |-> FALSE]
boolValues ==
  (<<"f", "a", "l", "s", "e">> :> falseValue)
    @@ (<<"F", "A", "L", "S", "E">> :> falseValue)
    @@ (<<"t", "r", "u", "e">> :> trueValue)
    @@ (<<"T", "R", "U", "E">> :> trueValue)
boolValue(s) == IF s \in DOMAIN boolValues THEN boolValues[s] ELSE falseValue

dynamoValueNoRule(key, value) == stringValue(value)

dynamoValue(key, value) ==
  IF key \in DOMAIN conf.KeyToConverter
    THEN CASE conf.KeyToConverter[key] = "numberValue" -> numberValue(value)
           [] conf.KeyToConverter[key] = "boolValue" -> boolValue(value)
           [] OTHER -> stringValue(value)
    ELSE stringValue(value)

columnNamesToInclude == {conf.KeyColumns[i] : i \in DOMAIN conf.KeyColumns}

\* csv.Reader.Read on the rest of the input: the first record read fixes
\* FieldsPerRecord, a later record of another length is ErrFieldCount
csvRead(tail, fpr) ==
  IF tail = <<>>
    THEN [record |-> <<>>, err |-> "EOF", fpr |-> fpr, rest |-> <<>>]
    ELSE IF fpr > 0 /\ Len(Head(tail)) # fpr
      THEN [record |-> Head(tail), err |-> "ErrFieldCount", fpr |-> fpr,
            rest |-> Tail(tail)]
      ELSE [record |-> Head(tail), err |-> "nil",
            fpr |-> IF fpr = 0 THEN Len(Head(tail)) ELSE fpr,
            rest |-> Tail(tail)]

RECURSIVE ReadColumnsAll(_, _, _)
ReadColumnsAll(i, record, attrs) ==
  IF i > Len(columnNames) THEN [attrs |-> attrs, panic |-> FALSE]
  ELSE IF i > Len(record) THEN [attrs |-> attrs, panic |-> TRUE]
  ELSE IF Len(record[i]) # 0
    THEN ReadColumnsAll(i + 1, record,
           (columnNames[i] :> dynamoValue(columnNames[i], record[i])) @@ attrs)
  ELSE ReadColumnsAll(i + 1, record, attrs)

\* the loop of Read over columnNames; record[i] past the end of the record
\* is an index-out-of-range panic
RECURSIVE ReadColumns(_, _, _)
ReadColumns(i, record, attrs) ==
  IF i > Len(columnNames) THEN [attrs |-> attrs, panic |-> FALSE]
  ELSE IF columnNamesToInclude # {} /\ columnNames[i] \notin columnNamesToInclude
    THEN ReadColumns(i + 1, record, attrs)
  ELSE IF i > Len(record) THEN [attrs |-> attrs, panic |-> TRUE]
  ELSE IF Len(record[i]) # 0
    THEN ReadColumns(i + 1, record,
           (columnNames[i] :> dynamoValue(columnNames[i], record[i])) @@ attrs)
  ELSE ReadColumns(i + 1, record, attrs)

ConverterRead(tail, fpr) ==
  LET rd == csvRead(tail, fpr)
      l == ReadColumns(1, rd.record, <<>>)
  IN  IF rd.err # "nil"
        THEN [item |-> NilItem, err |-> rd.err, panic |-> FALSE,
              fpr |-> rd.fpr, rest |-> rd.rest]
      ELSE IF l.panic
        THEN [item |-> NilItem, err |-> "nil", panic |-> TRUE,
              fpr |-> rd.fpr, rest |-> rd.rest]
      ELSE [item |-> [nil |-> FALSE, attrs |-> l.attrs], err |-> "nil",
            panic |-> FALSE, fpr |-> rd.fpr, rest |-> rd.rest]

RECURSIVE ReadBatchItems(_, _, _, _)
ReadBatchItems(n, tail, fpr, items) ==
  IF n >= batchSize
    THEN [items |-> items, read |-> n, err |-> "nil", panic |-> FALSE,
          fpr |-> fpr]
    ELSE LET r == ConverterRead(tail, fpr)
         IN  IF r.panic
               THEN [items |-> <<>>, read |-> 0, err |-> "nil",
                     panic |-> TRUE, fpr |-> r.fpr]
             ELSE IF r.err # "nil"
               THEN [items |-> items, read |-> n, err |-> r.err,
                     panic |-> FALSE, fpr |-> r.fpr]
             ELSE ReadBatchItems(n + 1, r.rest, r.fpr, Append(items, r.item))

ConverterReadBatch(tail, fpr) == ReadBatchItems(0, tail, fpr, <<>>)

\* NewConverter and Converter.init
NewConverter ==
  /\ mode = "conv" /\ convPc = "new"
  /\ IF Len(conf.Columns) > 0
       THEN /\ columnNames' = conf.Columns
            /\ convPc' = "ready"
            /\ UNCHANGED <<fieldsPerRecord, csvEOF, result>>
       ELSE \E tail \in HeaderTails :
              LET rd == csvRead(tail, fieldsPerRecord)
              IN  /\ columnNames' = IF rd.err = "nil" THEN rd.record ELSE <<>>
                  /\ convPc' = IF rd.err = "nil" THEN "ready" ELSE "failed"
                  /\ fieldsPerRecord' = rd.fpr
                  /\ csvEOF' = (rd.err = "EOF")
                  /\ result' = [NoResult EXCEPT !.op = "NewConverter",
                                  !.input = tail, !.err = rd.err]
  /\ UNCHANGED <<conf, mode, pc, fatalMsg, localVars, remoteVars, mainVars>>

Callable == mode = "conv" /\ convPc = "ready" /\ ~result.panic

CallRead ==
  /\ Callable
  /\ \E tail \in ReadTails :
       /\ csvEOF => tail = <<>>
       /\ LET r == ConverterRead(tail, fieldsPerRecord)
          IN  /\ result' = [op |-> "Read", input |-> tail, item |-> r.item,
                            items |-> <<>>, read |-> 0, err |-> r.err,
                            panic |-> r.panic]
              /\ fieldsPerRecord' = r.fpr
              /\ csvEOF' = (r.err = "EOF")
  /\ UNCHANGED <<conf, columnNames, convPc>>
  /\ UNCHANGED <<mode, pc, fatalMsg, localVars, remoteVars, mainVars>>

CallReadBatch ==
  /\ Callable
  /\ \E tail \in BatchTails :
       /\ csvEOF => tail = <<>>
       /\ LET r == ConverterReadBatch(tail, fieldsPerRecord)
          IN  /\ result' = [op |-> "ReadBatch", input |-> tail,
                            item |-> NilItem, items |-> r.items,
                            read |-> r.read, err |-> r.err, panic |-> r.panic]
              /\ fieldsPerRecord' = r.fpr
              /\ csvEOF' = (r.err = "EOF")
  /\ UNCHANGED <<conf, columnNames, convPc>>
  /\ UNCHANGED <<mode, pc, fatalMsg, localVars, remoteVars, mainVars>>

NextConv == NewConverter \/ CallRead \/ CallReadBatch

ConvSpec == InitConv /\ [][NextConv]_vars

\* ------------------------------------------------------------ properties
Local == mode = "local"

AllDone == \A w \in Workers : workerPc[w] = "done"

\* the run is declared complete once wg.Wait() has returned
DeclaredComplete == Local /\ pc \in {"log", "complete"}

RECURSIVE Occurrences(_, _)
Occurrences(r, items) ==
  IF items = <<>> THEN 0
  ELSE (IF Head(items) = r THEN 1 ELSE 0) + Occurrences(r, Tail(items))

\* calls of the sink's Write made with batch b, whatever they returned
SinkCalls(b) == CopiesIn(b, written) + CopiesIn(b, rejected)

RECURSIVE SumOver(_, _)
SumOver(S, f) ==
  IF S = {} THEN 0
  ELSE LET x == CHOOSE y \in S : TRUE IN f[x] + SumOver(S \ {x}, f)

\* times row r has been passed to the sink
SinkCopies(r) ==
  LET B == BagToSet(written) \cup BagToSet(rejected) IN
  SumOver(B, [b \in B |-> SinkCalls(b) * Occurrences(r, b.items)])

\* sum of len(batch) over the Write calls that returned nil
WrittenRecords ==
  LET B == BagToSet(written) IN
  SumOver(B, [b \in B |-> CopiesIn(b, written) * Len(b.items)])

\* C1: when the run is declared complete and no Write has failed, every
\* data row has been passed to the sink exactly once and every batch put on
\* the channel has been written exactly once.
C1_DeliveredExactlyOnce ==
  (DeclaredComplete /\ rejected = EmptyBag) =>
     /\ \A r \in 1..nRows : SinkCopies(r) = 1
     /\ \A i \in 1..Len(enqueued) : CopiesIn(enqueued[i], written) = 1
     /\ BagCardinality(written) = Len(enqueued)

C1_Witness ==
  /\ Local /\ pc = "complete" /\ rejected = EmptyBag
  /\ nRows > 2 * batchSize /\ concurrency >= 2
  /\ Len(enqueued) >= 3

\* C2: under fair scheduling, a run over an input without a malformed row in
\* which no Write fails reaches the "complete" line, with the channel closed
\* and every worker returned.
C2_LocalTerminates ==
  (Local /\ badRow = 0) =>
     <>(rejected # EmptyBag \/ (pc = "complete" /\ closed /\ AllDone))

C2_Witness ==
  /\ Local /\ pc = "complete" /\ closed /\ AllDone /\ rejected = EmptyBag
  /\ Len(enqueued) > capacity + 1

\* C3 (as claimed): whichever workers fail, a run over an input without a
\* malformed row is eventually declared complete.
C3_CompletesDespiteFailures ==
  (Local /\ badRow = 0) => <>(pc = "complete")

\* batches read by the producer whose Write has not returned yet
InFlight == read - BagCardinality(written) - BagCardinality(rejected)

\* C4: the channel never buffers more batches than its capacity, and at most
\* capacity + W + 1 batches are read but not yet through their Write.
C4_Backpressure ==
  Local => /\ Len(batches) <= capacity
           /\ InFlight <= capacity + concurrency + 1

C4_Witness ==
  /\ Local /\ pc = "send" /\ Len(batches) = capacity
  /\ InFlight = capacity + concurrency + 1

\* C5 (as claimed): whenever every worker has returned, the channel's buffer
\* is empty.
C5_DrainedWhenWorkersExited ==
  (Local /\ AllDone) => Len(batches) = 0

\* records of Writes that returned nil and are not yet added to recordCount
PendingRecords ==
  LET P == {w \in Workers : workerPc[w] = "addRecords"} IN
  SumOver(P, [w \in P |-> Len(workerBatch[w].items)])

\* C6: recordCount starts at 0, never decreases, always equals the records
\* of the successful Writes whose increment has been executed, and the total
\* of the "complete" line is the sum of the sizes of the batches written.
C6_RecordCounter ==
  /\ recordCount = 0
  /\ [](Local => /\ recordCount + PendingRecords = WrittenRecords
                 /\ (pc = "complete" => reported = WrittenRecords))
  /\ [][recordCount' >= recordCount]_vars

C6_Witness ==
  /\ Local /\ pc = "complete" /\ reported > batchSize
  /\ rejected # EmptyBag

\* batches a worker holds between its receive and the return of Write
HeldBy(w) == IF workerPc[w] = "write" THEN {workerBatch[w]} ELSE {}

\* C7: every batch is passed to the sink at most once, succeeded or failed;
\* a batch is never in the buffer twice, never held by two workers, and a
\* batch that is buffered or held has not been passed to the sink.
C7_AtMostOnce ==
  Local =>
     /\ \A b \in BagToSet(written) \cup BagToSet(rejected) : SinkCalls(b) = 1
     /\ \A i, j \in 1..Len(batches) : batches[i] = batches[j] => i = j
     /\ \A i \in 1..Len(batches) :
          /\ SinkCalls(batches[i]) = 0
          /\ \A w \in Workers : batches[i] \notin HeldBy(w)
     /\ \A v, w \in Workers :
          (v # w) => HeldBy(v) \cap HeldBy(w) = {}
     /\ \A w \in Workers : \A b \in HeldBy(w) : SinkCalls(b) = 0

C7_Witness ==
  /\ Local /\ rejected # EmptyBag /\ written # EmptyBag
  /\ \E w \in Workers : workerPc[w] = "write"
  /\ Len(batches) > 0

\* rows in front of the batch that holds the malformed row
RowsBeforeBadBatch == ((badRow - 1) \div batchSize) * batchSize

\* C8: once the reader has met the malformed row the process has exited
\* fatally, only the full batches in front of the batch of that row were
\* ever put on the channel, and the run is never declared complete.
C8_ReadErrorAborts ==
  (Local /\ badRow # 0) =>
     /\ pc \notin {"close", "wait", "log", "complete"}
     /\ reported = -1
     /\ (pos >= badRow =>
           /\ pc = "fatal"
           /\ fatalMsg = "failed to read batch from input"
           /\ Len(enqueued) * batchSize = RowsBeforeBadBatch
           /\ \A i \in 1..Len(enqueued) : \A j \in 1..Len(enqueued[i].items) :
                enqueued[i].items[j] <= RowsBeforeBadBatch)

C8_Witness ==
  /\ Local /\ pc = "fatal" /\ badRow > batchSize + 1
  /\ Len(batch.items) > 0
  /\ Len(enqueued) >= 1

Last(q) == q[Len(q)]

RunningSeen == Cardinality({i \in 1..Len(statuses) : statuses[i] = "RUNNING"})

\* C9: the adapter polls again, after one sleep, exactly when the status it
\* got is RUNNING, however many RUNNING statuses came before; it assigns and
\* parses the output and logs "complete" only behind a SUCCEEDED status; on
\* any other status it exits fatally with no output read and no "complete".
C9_Polling ==
  (mode = "remote" /\ statuses # <<>>) =>
     /\ \A i \in 1..(Len(statuses) - 1) : statuses[i] = "RUNNING"
     /\ (Last(statuses) = "RUNNING") =>
           /\ \/ pc \in {"sleep", "describe"}
              \/ pc = "fatal" /\ fatalMsg = "failed to get execution status"
           /\ (pc = "sleep") <=> (sleeps = RunningSeen - 1)
           /\ (pc # "sleep") <=> (sleeps = RunningSeen)
           /\ ~outputPayload.set /\ lines = -1
     /\ (Last(statuses) = "SUCCEEDED") =>
           /\ sleeps = RunningSeen
           /\ outputPayload.set
           /\ \/ pc = "unmarshal" /\ lines = -1
              \/ pc = "complete" /\ outputPayload.json
                   /\ lines = SumCounts(outputPayload.counts)
              \/ pc = "fatal" /\ fatalMsg = "failed to unmarshal output"
                   /\ ~outputPayload.json /\ lines = -1
     /\ (Last(statuses) \notin {"RUNNING", "SUCCEEDED"}) =>
           /\ pc = "fatal" /\ fatalMsg = "unexpected execution status"
           /\ sleeps = RunningSeen
           /\ ~outputPayload.set /\ lines = -1

C9_Witness ==
  /\ mode = "remote" /\ pc = "fatal"
  /\ statuses = <<"RUNNING", "RUNNING", "FAILED">>
  /\ sleeps = 2

Matches == {i \in 1..Len(stateMachines) : stateMachines[i] = "ddbimport"}

\* C10: without a state machine named "ddbimport" nothing is ever submitted
\* and the adapter ends fatally; otherwise the one execution submitted is of
\* the first such machine of the listing, and statuses are only requested
\* once it has been submitted.
C10_Discovery ==
  (mode = "remote") =>
     /\ Len(executions) <= 1
     /\ (Matches = {}) =>
           /\ executions = <<>> /\ statuses = <<>>
           /\ pc \in {"session", "list", "checkArn", "fatal"}
           /\ (pc = "fatal") => fatalMsg \in {"failed to create AWS session",
                                             "failed to list state machines",
                                             "ddbimport state machine not found"}
     /\ (pc = "start") => (arn \in Matches /\ executions = <<>>)
     /\ (executions # <<>>) =>
           /\ executions[1] \in Matches
           /\ \A j \in Matches : executions[1] <= j
     /\ (statuses # <<>> \/ pc \in {"describe", "sleep", "unmarshal", "complete"})
           => Len(executions) = 1

C10_Witness ==
  /\ mode = "remote"
  /\ stateMachines = <<"other", "ddbimport", "ddbimport">>
  /\ pageLen = 1
  /\ executions = <<2>>
  /\ statuses # <<>>

\* items the k-th ReadBatch call returns on a well-formed input of nRows rows
ExpectedItems(k) ==
  LET left == nRows - batchSize * (k - 1)
      n == IF left <= 0 THEN 0 ELSE IF left < batchSize THEN left ELSE batchSize
  IN [j \in 1..n |-> batchSize * (k - 1) + j]

\* C11: on a well-formed input the k-th ReadBatch call returns the rows
\* 25(k-1)+1 .. min(25k, nRows) in order, a count equal to their number, no
\* error with 25 items and io.EOF with fewer than 25.
C11_Batching ==
  (Local /\ badRow = 0) =>
     /\ (read >= 1) =>
           /\ batch.items = ExpectedItems(read)
           /\ batch.id = read
           /\ pos = batchSize * (read - 1) + Len(batch.items)
           /\ (Len(batch.items) = batchSize) => err = "nil"
           /\ (Len(batch.items) < batchSize) => err = "EOF"
     /\ (pc = "read") =>
           LET r == ReadBatch(pos) IN
           /\ r.items = ExpectedItems(read + 1)
           /\ r.read = Len(r.items)
           /\ (r.err = "EOF") <=> (r.read < batchSize)
           /\ (r.err = "nil") <=> (r.read = batchSize)

C11_Witness ==
  /\ Local /\ badRow = 0 /\ nRows = 60
  /\ read = 3 /\ err = "EOF" /\ Len(batch.items) = 10
  /\ Len(enqueued) = 3

\* C20: the run is declared complete only with the channel closed and every
\* worker returned; after that no Write is made and no counter changes, and
\* the "complete" line is written once.
C20_CompletionOrdering ==
  /\ [](DeclaredComplete => closed /\ AllDone /\ wg = 0 /\ pc # "fatal")
  /\ [][DeclaredComplete =>
          /\ written' = written /\ rejected' = rejected
          /\ recordCount' = recordCount /\ batchCount' = batchCount
          /\ workerPc' = workerPc
          /\ pc' \in {"log", "complete"}]_vars
  /\ [][reported # -1 => (reported' = reported /\ pc' = pc)]_vars

C20_Witness ==
  /\ Local /\ pc = "complete" /\ concurrency = 2
  /\ rejected # EmptyBag /\ written # EmptyBag

\* the parameter errors of the command line: table region or name absent,
\* both a local file and a bucket flag, an incomplete bucket triple, no
\* source at all, remote mode without a complete bucket source
ConfigError(f) ==
  LET anyBucket == f.bucketRegion # "" \/ f.bucketName # "" \/ f.bucketKey # ""
      allBucket == f.bucketRegion # "" /\ f.bucketName # "" /\ f.bucketKey # ""
  IN \/ f.tableRegion = "" \/ f.tableName = ""
     \/ f.inputFile # "" /\ anyBucket
     \/ anyBucket /\ ~allBucket
     \/ f.inputFile = "" /\ ~anyBucket
     \/ f.remote /\ ~allBucket

\* C16 (as claimed): on every command line with a parameter error main
\* prints the usage text with a diagnostic and exits non-zero, and neither
\* opens the source nor calls an import.
C16_ConfigErrorsStop ==
  (mode = "main" /\ mainPc # "main" /\ ~flags.install /\ ConfigError(flags)) =>
     /\ mainPc = "usage" /\ usageMsg # "" /\ exitCode = 1
     /\ ~sourceOpened /\ call = NoCall

\* C17 (as claimed): delimiter gives the tab character only for "tab" and
\* the comma for every other string.
C17_DelimiterNamedOnly ==
  (mode = "main" /\ call # NoCall) =>
     call.delimiter = IF flags.delimiter = <<"t", "a", "b">> THEN Tab ELSE Comma

\* C17 (amended): delimiter gives the tab character for "tab" and for the
\* string that is the tab character itself, and the comma for every other
\* string.
C17_Delimiter ==
  (mode = "main" /\ call # NoCall) =>
     call.delimiter = IF flags.delimiter \in {<<"t", "a", "b">>, <<Tab>>}
                        THEN Tab ELSE Comma

C17_Witness ==
  /\ mode = "main" /\ call.fn = "importLocal"
  /\ flags.delimiter = <<Tab>> /\ call.delimiter = Tab

\* ------------------------------------------------ properties, the converter
Conv == mode = "conv"
\* a call of Read that consumed a row
ReadOfRow == Conv /\ result.op = "Read" /\ result.input # <<>>
Row == result.input[1]
WellFormed(rec) == Len(rec) = Len(columnNames)
\* Read has returned an item for a well-formed row
ItemOfRow ==
  /\ ReadOfRow /\ WellFormed(Row)
  /\ ~result.panic /\ result.err = "nil" /\ ~result.item.nil
Attrs == result.item.attrs
Keys == DOMAIN Attrs
AllowListed(n) ==
  conf.KeyColumns = <<>> \/ \E j \in DOMAIN conf.KeyColumns : conf.KeyColumns[j] = n
Rule(n) ==
  IF n \in DOMAIN conf.KeyToConverter THEN conf.KeyToConverter[n]
  ELSE "stringValue"
Converted(n, text) ==
  CASE Rule(n) = "numberValue" -> [tag |-> "N", text |-> text, bool |-> FALSE]
    [] Rule(n) = "boolValue" -> boolValue(text)
    [] OTHER -> [tag |-> "S", text |-> text, bool |-> FALSE]
\* the columns of a name that hold text in the row, and the last of them
Filled(n, rec) == {i \in 1..Len(columnNames) : columnNames[i] = n /\ rec[i] # Empty}
LastFilled(n, rec) == CHOOSE i \in Filled(n, rec) : \A j \in Filled(n, rec) : j <= i
LowerChar(c) ==
  CASE c = "A" -> "a" [] c = "E" -> "e" [] c = "F" -> "f" [] c = "L" -> "l"
    [] c = "R" -> "r" [] c = "S" -> "s" [] c = "T" -> "t" [] c = "U" -> "u"
    [] c = "Y" -> "y" [] OTHER -> c
ToLower(s) == [i \in 1..Len(s) |-> LowerChar(s[i])]
\* the first row of a ReadBatch input whose arity is not the column list's
Mismatched(input) == {k \in 1..Len(input) : ~WellFormed(input[k])}
FirstMismatch(input) ==
  CHOOSE k \in Mismatched(input) : \A j \in Mismatched(input) : k <= j

\* C12 (as claimed): Read of a row whose number of fields differs from the
\* length of the column list in use fails with ErrFieldCount and returns a
\* nil item, and ReadBatch returns that error with exactly the items of the
\* rows before the first such row.
C12_FieldCountMismatch ==
  /\ (ReadOfRow /\ ~WellFormed(Row)) =>
        ~result.panic /\ result.err = "ErrFieldCount" /\ result.item.nil
  /\ (Conv /\ result.op = "ReadBatch" /\ Mismatched(result.input) # {}) =>
        /\ ~result.panic /\ result.err = "ErrFieldCount"
        /\ result.read = FirstMismatch(result.input) - 1
        /\ Len(result.items) = result.read

\* C13 (as claimed): the item of a well-formed row has a key for a column
\* exactly when the column's text is non-empty and the column passes the
\* allow-list, and no empty text is stored.
C13_KeyPerColumn ==
  ItemOfRow =>
    /\ \A i \in 1..Len(columnNames) :
         columnNames[i] \in Keys <=>
           (Row[i] # Empty /\ AllowListed(columnNames[i]))
    /\ \A n \in Keys : Attrs[n].tag \in {"S", "N"} => Attrs[n].text # Empty

\* C13 (amended): the item of a well-formed row has a key for a column name
\* exactly when some column of that name has non-empty text and the name
\* passes the allow-list (for a name that occurs once: when that column's
\* text is non-empty), it has no other key, and no empty text is stored.
C13_KeySet ==
  ItemOfRow =>
    /\ \A n \in Keys \cup Names :
         n \in Keys <=> (Filled(n, Row) # {} /\ AllowListed(n))
    /\ \A n \in Keys : Attrs[n].tag \in {"S", "N"} => Attrs[n].text # Empty

\* an allow-list is configured; one column is kept and another, which holds
\* text, is left out
C13_Witness ==
  /\ ItemOfRow /\ conf.KeyColumns # <<>>
  /\ \E i, j \in 1..Len(columnNames) :
       /\ columnNames[i] \in Keys
       /\ columnNames[j] \notin Keys /\ Row[j] # Empty

\* C14 (as claimed): under the boolean rule every casing of "true" converts
\* to true, and every casing of "false" and any other non-empty text
\* converts to false.
C14_BoolCaseInsensitive ==
  ItemOfRow =>
    \A n \in Keys :
      Rule(n) = "boolValue" =>
        /\ Attrs[n].tag = "BOOL"
        /\ Attrs[n].bool =
             (ToLower(Row[LastFilled(n, Row)]) = <<"t", "r", "u", "e">>)

\* C15 (as claimed): in the item of a well-formed row the value under the
\* i-th column name, when present, is the i-th field converted by the rule
\* of that column, string without a rule; a number column keeps the raw
\* text tagged N, and no other column is tagged N.
C15_Positional ==
  ItemOfRow =>
    \A i \in 1..Len(columnNames) :
      columnNames[i] \in Keys =>
        /\ Attrs[columnNames[i]] = Converted(columnNames[i], Row[i])
        /\ Attrs[columnNames[i]].tag = "N" <=> Rule(columnNames[i]) = "numberValue"

\* C15 (amended): in the item of a well-formed row the value under a column
\* name is the last non-empty field of the columns of that name (the i-th
\* field for a name that occurs only at position i) converted by the rule of
\* that name, string without a rule; a number column keeps the raw text
\* tagged N, and no other column is tagged N.
C15_Conversion ==
  ItemOfRow =>
    \A n \in Keys :
      /\ Filled(n, Row) # {}
      /\ Attrs[n] = Converted(n, Row[LastFilled(n, Row)])
      /\ Attrs[n].tag = "N" <=> Rule(n) = "numberValue"
      /\ Attrs[n].tag = "N" => Attrs[n].text = Row[LastFilled(n, Row)]

\* two columns under different rules: a number column whose text is not a
\* number, and a column without a rule whose text is a number
C15_Witness ==
  /\ ItemOfRow /\ columnNames = <<ColA, ColB>>
  /\ Rule(ColA) = "numberValue" /\ ColB \notin DOMAIN conf.KeyToConverter
  /\ Row = <<<<"y", "e", "s">>, One>>
  /\ Attrs = (ColA :> [tag |-> "N", text |-> <<"y", "e", "s">>, bool |-> FALSE])
               @@ (ColB :> [tag |-> "S", text |-> One, bool |-> FALSE])

\* ------------------------------------------- properties, progress counters
\* Write calls that returned nil
SuccessfulWrites == BagCardinality(written)
\* successful writes whose increment of batchCount is still to come
UncountedWrites ==
  Cardinality({w \in Workers : workerPc[w] \in {"addRecords", "addBatches"}})

\* C19 (as claimed): batchCount is 0 at the start and counts the successful
\* Write calls, and one progress line has been logged for each multiple of
\* 100 that the number of counted writes has reached.
C19_ProgressCadence ==
  Local => /\ batchCount + UncountedWrites = SuccessfulWrites
           /\ progress = batchCount \div progressEvery

\* ----------------------------------------------- properties, shared state
\* C18 (as claimed): no variable of importLocal other than the channel and
\* the two counters is written by a worker and accessed by another
\* goroutine: duration, which importLocal assigns and reads for the
\* "complete" line, is assigned by no worker, and by no two goroutines.
C18_NoSharedDuration ==
  Local => /\ 0 \in durationWriters => durationWriters = {0}
           /\ Cardinality(durationWriters) <= 1

\* ------------------------------------------------- properties, batch sizes
\* batches passed to the sink's Write, whatever it returned
SinkBatches == BagToSet(written) \cup BagToSet(rejected)

\* C21 (as claimed): every batch the producer has put on the channel, and
\* every batch passed to the sink, holds at least 1 and at most 25 items.
C21_BatchSizeBound ==
  Local =>
    /\ \A i \in 1..Len(enqueued) :
         Len(enqueued[i].items) >= 1 /\ Len(enqueued[i].items) <= batchSize
    /\ \A b \in SinkBatches : Len(b.items) >= 1 /\ Len(b.items) <= batchSize

====
